---- MODULE Spec2Model ----
(***************************************************************************)
(* ORP data logger sketch: button reader, sensor link, averager,           *)
(* calibration and log-frequency sub-loops, data logger and main loop.     *)
(* The model follows the last sketch version (the one with logging); the   *)
(* two earlier versions share ReadButtons verbatim.                        *)
(***************************************************************************)
EXTENDS Integers, Sequences, FiniteSets, TLC

(* ---------------- program constants ---------------- *)
RIGHT_10BIT == 0
UP_10BIT == 145
DOWN_10BIT == 329
LEFT_10BIT == 505
SELECT_10BIT == 741
HYSTERESIS == 10

BUTTON_NONE == 0
RIGHT == 1
UP == 2
DOWN == 3
LEFT == 4
SELECT == 5

Buttons == {BUTTON_NONE, RIGHT, UP, DOWN, LEFT, SELECT}

\* analogRead() returns a 10-bit value
ADCMax == 1023

(* ---------------- bounds of the model ---------------- *)
\* largest cycle time (seconds since the first cycle) explored
MaxTime == 12
\* largest log frequency explored
MaxLogFreq == 10
\* largest denominator of the averaging accumulator explored
MaxDen == 6
\* seconds the clock may have advanced between two reads of the RTC
TimeSteps == {0, 5, 7}

\* ADC samples fed to the whole program: one per band, and one outside all
ADCSamples == {RIGHT_10BIT, UP_10BIT, DOWN_10BIT, LEFT_10BIT, SELECT_10BIT, ADCMax}

\* ADC samples fed to the button reader alone: for every reference level the
\* level itself, both ends of its band and the values just outside them,
\* and the top of the ADC range
ADCEdges ==
  {v \in 0..ADCMax :
     \E L \in {RIGHT_10BIT, UP_10BIT, DOWN_10BIT, LEFT_10BIT, SELECT_10BIT} :
        \E k \in {0, HYSTERESIS - 1, HYSTERESIS, HYSTERESIS + 1} :
           v = L + k \/ v = L - k}
  \cup {ADCMax}

\* response lines of the sensor (without the terminating CR); NoLine stands
\* for orpSerial.available() = 0
NoLine == <<>>
SensorLines == {<<"1", "0">>, <<"2", "0">>, <<"3", "0">>}
\* the one response line fed to the program when the clock runs
OneLine == {<<"1", "0">>}
\* the clock does not advance between two reads of the RTC
Frozen == {0}

(* ---------------- float values, kept exact as fractions ---------------- *)
RECURSIVE GCD(_, _)
GCD(a, b) == IF b = 0 THEN a ELSE GCD(b, a % b)

Abs(x) == IF x < 0 THEN -x ELSE x

Rat(n, d) ==
  LET g == GCD(Abs(n), Abs(d))
      s == IF d < 0 THEN -1 ELSE 1
  IN  [n |-> (s * n) \div g, d |-> (s * d) \div g]

Zero == [n |-> 0, d |-> 1]

RAdd(x, y) == Rat(x.n * y.d + y.n * x.d, x.d * y.d)
RDivInt(x, k) == Rat(x.n, x.d * k)
RNeg(x) == [n |-> -x.n, d |-> x.d]
RLess(x, y) == x.n * y.d < y.n * x.d
RGeq(x, y) == ~RLess(x, y)
RAbs(x) == IF x.n > 0 THEN x ELSE RNeg(x)

(* ---------------- atof ---------------- *)
DigitChars == <<"0", "1", "2", "3", "4", "5", "6", "7", "8", "9">>
DigitSet == {DigitChars[i] : i \in 1..10}
DigitVal(c) == (CHOOSE i \in 1..10 : DigitChars[i] = c) - 1

RECURSIVE ScanInt(_, _, _)
ScanInt(s, i, acc) ==
  IF i <= Len(s) /\ s[i] \in DigitSet
    THEN ScanInt(s, i + 1, acc * 10 + DigitVal(s[i]))
    ELSE <<acc, i>>

RECURSIVE ScanFrac(_, _, _, _)
ScanFrac(s, i, num, den) ==
  IF i <= Len(s) /\ s[i] \in DigitSet
    THEN ScanFrac(s, i + 1, num * 10 + DigitVal(s[i]), den * 10)
    ELSE <<num, den>>

\* longest decimal prefix (sign, digits, point, digits); 0.0 when there is none
atof(s) ==
  LET signed == Len(s) > 0 /\ s[1] \in {"-", "+"}
      start == IF signed THEN 2 ELSE 1
      ip == ScanInt(s, start, 0)
      fp == IF ip[2] <= Len(s) /\ s[ip[2]] = "."
              THEN ScanFrac(s, ip[2] + 1, ip[1], 1)
              ELSE <<ip[1], 1>>
      sg == IF signed /\ s[1] = "-" THEN -1 ELSE 1
  IN  Rat(sg * fp[1], fp[2])

(* ---------------- state ---------------- *)
VARIABLES
  pc,                  \* "loop": top of loop(); "cal": in startCalibration's
                       \* do-loop; "freq": in setLogFreq's do-loop;
                       \* "tail": in loop() after the switch
  now,                 \* unixtime of the DateTime read at the top of loop()
  buttonVoltage,       \* last value returned by analogRead(BUTTON_ADC)
  button,              \* last value returned by ReadButtons()
  buttonWas, buttonJustPressed, buttonJustReleased,
  buttonHeld,          \* the last poll sampled the button, other than NONE,
                       \* that the poll before it had sampled
  logData, logPin, nextDataPoint, logFreq,
  counter, avgORP, ORP, ORPvalue, sensor_data, string_received,
  orpPos,              \* column of the last lcd.setCursor(orpPos,1)
  orpOut,              \* commands written to orpSerial by the last step
  logOut,              \* records written by LogData() in the current cycle
  group,               \* accumulator at the start of the current averaging
                       \* group and the readings folded in it so far
  hist                 \* the last four polls of the button reader on its own

btnVars ==
  <<buttonVoltage, button, buttonWas, buttonJustPressed, buttonJustReleased,
    buttonHeld>>
logVars == <<logData, logPin, nextDataPoint>>
avgVars == <<counter, avgORP, ORP, ORPvalue, sensor_data, string_received, orpPos, group>>
vars == <<pc, now, btnVars, logVars, logFreq, avgVars, orpOut, logOut, hist>>

(* ---------------- ButtonReader ---------------- *)
\* the if / else-if chain of ReadButtons
ButtonOf(v) ==
  IF v < RIGHT_10BIT + HYSTERESIS THEN RIGHT
  ELSE IF v >= UP_10BIT - HYSTERESIS /\ v <= UP_10BIT + HYSTERESIS THEN UP
  ELSE IF v >= DOWN_10BIT - HYSTERESIS /\ v <= DOWN_10BIT + HYSTERESIS THEN DOWN
  ELSE IF v >= LEFT_10BIT - HYSTERESIS /\ v <= LEFT_10BIT + HYSTERESIS THEN LEFT
  ELSE IF v >= SELECT_10BIT - HYSTERESIS /\ v <= SELECT_10BIT + HYSTERESIS THEN SELECT
  ELSE BUTTON_NONE

\* a reader that misses the release edge
EdgeFlagsNoRelease(was, b, jp, jr) ==
  IF was = BUTTON_NONE /\ b # BUTTON_NONE THEN <<TRUE, FALSE>> ELSE <<jp, jr>>

\* a reader whose edge tests set one flag and leave the other
EdgeFlagsSticky(was, b, jp, jr) ==
  LET p == was = BUTTON_NONE /\ b # BUTTON_NONE
      r == was # BUTTON_NONE /\ b = BUTTON_NONE
  IN  <<IF p THEN TRUE ELSE jp, IF r THEN TRUE ELSE jr>>

\* the two edge tests of ReadButtons; the result is <<justPressed, justReleased>>
EdgeFlags(was, b, jp, jr) ==
  LET p == was = BUTTON_NONE /\ b # BUTTON_NONE
      r == was # BUTTON_NONE /\ b = BUTTON_NONE
      jp1 == IF p THEN TRUE ELSE jp
      jr1 == IF p THEN FALSE ELSE jr
  IN  <<IF r THEN FALSE ELSE jp1, IF r THEN TRUE ELSE jr1>>

ReadButtons(v) ==
  LET b == ButtonOf(v)
      f == EdgeFlags(buttonWas, b, buttonJustPressed, buttonJustReleased)
  IN  /\ buttonVoltage' = v
      /\ button' = b
      /\ buttonJustPressed' = f[1]
      /\ buttonJustReleased' = f[2]
      /\ buttonWas' = b
      /\ buttonHeld' = (b # BUTTON_NONE /\ b = buttonWas)

(* ---------------- SensorLink and Averager ---------------- *)
\* getORPdata with the line that is available (NoLine when none is):
\* <<sensor_data, string_received, ORP>> after the call
getORPdata(line) ==
  LET sd == IF line # NoLine THEN line ELSE sensor_data
      sr == IF line # NoLine THEN 1 ELSE string_received
  IN  <<sd, sr, IF sr = 1 THEN atof(sd) ELSE ORP>>

\* a fold that keeps the mean of the readings of the group
FoldRunningMean(avg, reading, cnt) ==
  RDivInt(RAdd(Rat(avg.n * (cnt - 1), avg.d), reading), cnt)

\* a fold that divides by the number of readings plus one
FoldOffByOne(avg, reading, cnt) == RDivInt(RAdd(avg, reading), cnt + 1)

\* the accumulator after one fold
Fold(avg, reading, cnt) == RDivInt(RAdd(avg, reading), cnt)

\* a counter that folds four readings before it resets
CounterAfterLate(cnt) == IF cnt < 5 THEN cnt + 1 ELSE 1

\* the averaging counter after one pass through the averaging block
CounterAfter(cnt) == IF cnt < 4 THEN cnt + 1 ELSE 1

\* what the averaging block writes to orpSerial: getORPdata is called, and
\* sends its "R", only when the block folds
Requests(cnt) == IF cnt < 4 THEN <<"R">> ELSE <<>>

\* a layout that starts every value one column further right
OrpColumnOneRight(v) ==
  IF RGeq(RAbs(RDivInt(v, 1000)), [n |-> 1, d |-> 1]) THEN 10
  ELSE IF RGeq(RAbs(RDivInt(v, 100)), [n |-> 1, d |-> 1]) THEN 11
  ELSE IF RGeq(RAbs(RDivInt(v, 10)), [n |-> 1, d |-> 1]) THEN 12
  ELSE 13

\* the column chosen for the displayed value before the sign shift
OrpColumn(v) ==
  IF RGeq(RAbs(RDivInt(v, 1000)), [n |-> 1, d |-> 1]) THEN 9
  ELSE IF RGeq(RAbs(RDivInt(v, 100)), [n |-> 1, d |-> 1]) THEN 10
  ELSE IF RGeq(RAbs(RDivInt(v, 10)), [n |-> 1, d |-> 1]) THEN 11
  ELSE 12

\* orpPos = orpPos-- modifies orpPos twice without sequencing: the build
\* may leave the column as it is or decrement it
OrpColumns(v) ==
  IF RLess(v, Zero) THEN {OrpColumn(v), OrpColumn(v) - 1} ELSE {OrpColumn(v)}

\* the averaging block and the display block shared by loop() and
\* startCalibration()
Average(line) ==
  /\ IF counter < 4
       THEN LET g == getORPdata(line)
            IN  /\ sensor_data' = g[1]
                /\ string_received' = g[2]
                /\ ORP' = g[3]
                /\ avgORP' = Fold(avgORP, g[3], counter)
                /\ avgORP'.d <= MaxDen
                /\ ORPvalue' = ORPvalue
                /\ group' = IF counter = 1
                              THEN [start |-> avgORP, rs |-> <<g[3]>>]
                              ELSE [group EXCEPT !.rs = Append(@, g[3])]
       ELSE \* getORPdata is not called: nothing is read from orpSerial
            /\ line = NoLine
            /\ ORPvalue' = avgORP
            /\ UNCHANGED <<sensor_data, string_received, ORP, avgORP, group>>
  /\ counter' = CounterAfter(counter)
  /\ orpPos' \in OrpColumns(ORPvalue')

(* ---------------- DataLogger ---------------- *)
\* nextDataPoint is an unsigned long (32 bits); the times of the RTC (years
\* 2000..2099) plus a log frequency stay below 2^32, so the sum never wraps
\* and is kept as a plain integer.
LogData(value, t) == [t |-> t, v |-> value]

\* a check that fires only after the due time has passed
DueLate(logging, t, due) == logging /\ t > due

\* the test of the periodic logging check
Due(logging, t, due) == logging /\ t >= due

\* a schedule that ignores the operator's log frequency
RescheduleFixed(t, freq) == t + 5

\* the next due time set when a record is written
Reschedule(t, freq) == t + freq

\* a toggle that schedules the first record instead of writing it
SelectToggleSilent(t) ==
  /\ logData' = ~logData
  /\ logPin' = IF logData' THEN "HIGH" ELSE "LOW"
  /\ logOut' = <<>>
  /\ nextDataPoint' = IF logData' THEN Reschedule(t, logFreq) ELSE nextDataPoint

\* a toggle that leaves the logger powered when logging stops
SelectToggleKeepsPin(t) ==
  /\ logData' = ~logData
  /\ IF logData'
       THEN /\ logPin' = "HIGH"
            /\ logOut' = <<LogData(ORPvalue, t)>>
            /\ nextDataPoint' = Reschedule(t, logFreq)
       ELSE /\ logPin' = logPin
            /\ logOut' = <<>>
            /\ nextDataPoint' = nextDataPoint

\* case SELECT of the switch in loop(), in the cycle of time t
SelectToggle(t) ==
  /\ logData' = ~logData
  /\ IF logData'
       THEN /\ logPin' = "HIGH"
            /\ logOut' = <<LogData(ORPvalue, t)>>
            /\ nextDataPoint' = Reschedule(t, logFreq)
       ELSE /\ logPin' = "LOW"
            /\ logOut' = <<>>
            /\ nextDataPoint' = nextDataPoint

(* ---------------- state after setup() ---------------- *)
Init ==
  /\ pc = "loop"
  /\ now = 0
  /\ buttonVoltage = ADCMax
  /\ button = BUTTON_NONE
  /\ buttonWas = BUTTON_NONE
  /\ buttonJustPressed = FALSE
  /\ buttonJustReleased = FALSE
  /\ buttonHeld = FALSE
  /\ logData = FALSE
  /\ logPin = "LOW"
  /\ nextDataPoint = 0
  /\ logFreq = 5
  /\ counter = 1
  /\ avgORP = Zero
  /\ ORP = Zero
  /\ ORPvalue = Zero
  /\ sensor_data = <<>>
  /\ string_received = 0
  /\ orpPos = 12
  /\ orpOut = <<"e", "e">>
  /\ logOut = <<>>
  /\ group = [start |-> Zero, rs |-> <<>>]
  /\ hist = <<>>

(* ---------------- MainLoop: from the top of loop() through the switch ---------------- *)
\* a switch that acts on a button only in the cycle of its press
DispatchedOnEdge(was, b) == IF was = BUTTON_NONE THEN b ELSE BUTTON_NONE

\* switch( button ): the case taken for the sample b, whatever the
\* previous sample was
Dispatched(was, b) == b

LoopDispatch(steps) ==
  /\ pc = "loop"
  /\ \E d \in steps, v \in ADCSamples :
       /\ now + d <= MaxTime
       /\ now' = now + d
       /\ ReadButtons(v)
       /\ IF Dispatched(buttonWas, button') = RIGHT
            THEN /\ orpOut' = <<"C">>
                 /\ pc' = "cal"
                 /\ logOut' = <<>>
                 /\ UNCHANGED logVars
          ELSE IF Dispatched(buttonWas, button') = LEFT
            THEN /\ orpOut' = <<>>
                 /\ pc' = "freq"
                 /\ logOut' = <<>>
                 /\ UNCHANGED logVars
          ELSE IF Dispatched(buttonWas, button') = SELECT
            THEN /\ SelectToggle(now')
                 /\ orpOut' = <<>>
                 /\ pc' = "tail"
          ELSE /\ orpOut' = <<>>
               /\ pc' = "tail"
               /\ logOut' = <<>>
               /\ UNCHANGED logVars
  /\ UNCHANGED <<logFreq, avgVars, hist>>

(* ---------------- CalibrationSession: one iteration of the do-loop ---------------- *)
\* a session that forgets the capture command
CalCommandsNoCapture(b) ==
  (IF b = UP THEN <<"+">> ELSE <<>>)
  \o (IF b = DOWN THEN <<"-">> ELSE <<>>)
  \o (IF b = LEFT THEN <<"E">> ELSE <<>>)

\* the commands sent for the button sampled in an iteration, the "E" sent
\* after the loop included
CalCommands(b) ==
  (IF b = UP THEN <<"+">> ELSE <<>>)
  \o (IF b = DOWN THEN <<"-">> ELSE <<>>)
  \o (IF b = SELECT THEN <<"X">> ELSE <<>>)
  \o (IF b = LEFT THEN <<"E">> ELSE <<>>)

\* a session that SELECT also ends
CalExitOnSelect(b) == b = LEFT \/ b = SELECT

\* the do-loop of startCalibration is left: while (button != LEFT) fails
CalExit(b) == b = LEFT

startCalibration(lines) ==
  /\ pc = "cal"
  /\ \E line \in lines \cup {NoLine}, v \in ADCSamples :
       /\ Average(line)
       /\ ReadButtons(v)
       /\ orpOut' = Requests(counter) \o CalCommands(button')
       /\ pc' = IF CalExit(button') THEN "tail" ELSE "cal"
  /\ UNCHANGED <<now, logVars, logFreq, logOut, hist>>

(* ---------------- LogFrequencySetter: one iteration of the do-loop ---------------- *)
\* a setter without the floor
FreqAfterNoClamp(f, b) ==
  IF b = UP THEN f + 5 ELSE IF b = DOWN THEN f - 5 ELSE f

\* a setter whose floor is 0
FreqAfterFloorZero(f, b) ==
  LET f1 == IF b = UP THEN f + 5 ELSE f
      f2 == IF b = DOWN THEN f1 - 5 ELSE f1
  IN  IF f2 < 0 THEN 0 ELSE f2

\* logFreq after an iteration that sampled b
FreqAfter(f, b) ==
  LET f1 == IF b = UP THEN f + 5 ELSE f
      f2 == IF b = DOWN THEN f1 - 5 ELSE f1
  IN  IF f2 < 5 THEN 5 ELSE f2

\* the do-loop of setLogFreq is left: while (button != RIGHT) fails
FreqExit(b) == b = RIGHT

\* a setter that moves the due time along with the frequency
setLogFreqReschedules ==
  /\ pc = "freq"
  /\ \E v \in ADCSamples :
       /\ ReadButtons(v)
       /\ logFreq' = FreqAfter(logFreq, button')
       /\ logFreq' <= MaxLogFreq
       /\ pc' = IF FreqExit(button') THEN "tail" ELSE "freq"
  /\ nextDataPoint' = IF logData THEN nextDataPoint + (logFreq' - logFreq)
                                 ELSE nextDataPoint
  /\ orpOut' = <<>>
  /\ UNCHANGED <<now, logData, logPin, avgVars, logOut, hist>>

setLogFreq ==
  /\ pc = "freq"
  /\ \E v \in ADCSamples :
       /\ ReadButtons(v)
       /\ logFreq' = FreqAfter(logFreq, button')
       /\ logFreq' <= MaxLogFreq
       /\ pc' = IF FreqExit(button') THEN "tail" ELSE "freq"
  /\ orpOut' = <<>>
  /\ UNCHANGED <<now, logVars, avgVars, logOut, hist>>

(* ---------------- MainLoop: from the averaging block to the delay ---------------- *)
LoopTail(lines) ==
  /\ pc = "tail"
  /\ \E line \in lines \cup {NoLine} :
       /\ Average(line)
       /\ orpOut' = Requests(counter)
  /\ IF Due(logData, now, nextDataPoint)
       THEN /\ logOut' = Append(logOut, LogData(ORPvalue', now))
            /\ nextDataPoint' = Reschedule(now, logFreq)
       ELSE UNCHANGED <<logOut, nextDataPoint>>
  /\ pc' = "loop"
  /\ UNCHANGED <<now, btnVars, logData, logPin, logFreq, hist>>

(* ---------------- the button reader on its own ---------------- *)
Poll(v) ==
  /\ ReadButtons(v)
  /\ hist' = LET h == Append(hist, [b |-> button',
                                    was |-> buttonWas,
                                    jp0 |-> buttonJustPressed,
                                    jr0 |-> buttonJustReleased,
                                    jp1 |-> buttonJustPressed',
                                    jr1 |-> buttonJustReleased'])
             IN  IF Len(h) > 4 THEN Tail(h) ELSE h

PollButtons ==
  /\ \E v \in ADCEdges : Poll(v)
  /\ UNCHANGED <<pc, now, logVars, logFreq, avgVars, orpOut, logOut>>

(* ---------------- the display block on its own ---------------- *)
\* published values fed to the display block alone, in twentieths of a
\* millivolt: both signs, every decade, both sides of each decade's edge,
\* and 123.45 and 82.3 themselves
DisplayMagnitudes ==
  {20 * k : k \in 0..24} \cup {200 * k : k \in 0..24}
    \cup {2000 * k : k \in 0..24} \cup {199, 1999, 19999, 2469, 1646}
DisplayValues ==
  {Rat(n, 20) : n \in DisplayMagnitudes} \cup {Rat(-n, 20) : n \in DisplayMagnitudes}

\* lcd.setCursor(14,1) before lcd.print("mV")
MvColumn == 14

Render ==
  /\ \E v \in DisplayValues :
       /\ ORPvalue' = v
       /\ orpPos' \in OrpColumns(v)
  /\ UNCHANGED <<pc, now, btnVars, logVars, logFreq, counter, avgORP, ORP,
                 sensor_data, string_received, group, orpOut, logOut, hist>>

(* ---------------- specifications ---------------- *)
\* the whole program, the clock running, one response line
Next ==
  \/ LoopDispatch(TimeSteps)
  \/ startCalibration(OneLine)
  \/ setLogFreq
  \/ LoopTail(OneLine)

Spec == Init /\ [][Next]_vars

\* the whole program, the clock frozen, all response lines
NextAvg ==
  \/ LoopDispatch(Frozen)
  \/ startCalibration(SensorLines)
  \/ setLogFreq
  \/ LoopTail(SensorLines)

SpecAvg == Init /\ [][NextAvg]_vars

\* the display block on its own
NextDisplay == Render

SpecDisplay == Init /\ [][NextDisplay]_vars

\* the button reader polled on its own
NextButtons == PollButtons

SpecButtons == Init /\ [][NextButtons]_vars

(* ---------------- properties ---------------- *)
\* the reference level of a button, from the table of ADC values
Level(b) ==
  CASE b = RIGHT -> RIGHT_10BIT
    [] b = UP -> UP_10BIT
    [] b = DOWN -> DOWN_10BIT
    [] b = LEFT -> LEFT_10BIT
    [] b = SELECT -> SELECT_10BIT

Pressable == Buttons \ {BUTTON_NONE}

\* the commands of a write other than the read request
Cmds(out) == SelectSeq(out, LAMBDA c : c # "R")

\* the number of read requests in a write
Reads(out) == Len(SelectSeq(out, LAMBDA c : c = "R"))

Num(k) == [n |-> k, d |-> 1]

\* C1: a raw ADC value within 10 counts of a button's reference level is
\* read as that button, and a value within 10 counts of no level as
\* BUTTON_NONE.
C1_BandsReturnButton ==
  /\ \A b \in Pressable :
       Abs(buttonVoltage - Level(b)) <= HYSTERESIS => button = b
  /\ (\A b \in Pressable : Abs(buttonVoltage - Level(b)) > HYSTERESIS)
       => button = BUTTON_NONE

\* the polls at which a flag went from false to true
PressRises == {i \in 1..Len(hist) : ~hist[i].jp0 /\ hist[i].jp1}
ReleaseRises == {i \in 1..Len(hist) : ~hist[i].jr0 /\ hist[i].jr1}

\* the last four polls sampled NONE, X, X, NONE from buttonWas = NONE with
\* both flags false
NoneXXNone ==
  /\ Len(hist) = 4
  /\ hist[1].was = BUTTON_NONE /\ ~hist[1].jp0 /\ ~hist[1].jr0
  /\ hist[1].b = BUTTON_NONE
  /\ hist[2].b # BUTTON_NONE
  /\ hist[3].b = hist[2].b
  /\ hist[4].b = BUTTON_NONE

\* C2: over the samples NONE, X, X, NONE taken from buttonWas = NONE with
\* both flags false, buttonJustPressed rises once, at the first X, and
\* buttonJustReleased rises once, at the final NONE.
C2_EdgeOnce == NoneXXNone => (PressRises = {2} /\ ReleaseRises = {4})

C2_Witness == NoneXXNone /\ hist[2].b = SELECT /\ buttonJustReleased

\* C3: a calibration session is C, then one of + - X per poll that samples
\* UP DOWN SELECT, then one E when LEFT is sampled; C is sent only on
\* entering from the main screen with RIGHT, and after E the main loop goes on.
C3_CalibrationStream ==
  [][ /\ (pc' = "cal" /\ pc # "cal")
           => (pc = "loop" /\ button' = RIGHT /\ orpOut' = <<"C">>)
      /\ (\E i \in DOMAIN orpOut' : orpOut'[i] = "C")
           => (pc = "loop" /\ pc' = "cal" /\ button' = RIGHT)
      /\ pc = "cal"
           => /\ Cmds(orpOut') = (CASE button' = UP -> <<"+">>
                                    [] button' = DOWN -> <<"-">>
                                    [] button' = SELECT -> <<"X">>
                                    [] button' = LEFT -> <<"E">>
                                    [] OTHER -> <<>>)
              /\ pc' = (IF button' = LEFT THEN "tail" ELSE "cal")
      /\ pc # "cal" => Cmds(orpOut') \in {<<>>, <<"C">>}
    ]_vars

C3_Witness == pc = "tail" /\ orpOut # <<>> /\ orpOut[Len(orpOut)] = "E"

\* C4: the periodic logging check of a cycle writes no record when logging is
\* off or the cycle time is before nextDataPoint, and one record otherwise.
C4_PeriodicCheck ==
  [][ pc = "tail"
        => Len(logOut') - Len(logOut)
             = (IF logData /\ now >= nextDataPoint THEN 1 ELSE 0) ]_vars

C4_Witness ==
  /\ pc = "loop" /\ button = BUTTON_NONE
  /\ logData /\ Len(logOut) = 1 /\ logOut[1].t = now

\* the periodic logging check fires in the next step
CheckFires == pc = "tail" /\ logData /\ now >= nextDataPoint

\* C5 as stated: each time the periodic check fires, nextDataPoint becomes
\* its previous value plus logFreq.
C5_AdvanceFromDue ==
  [][ CheckFires => nextDataPoint' = nextDataPoint + logFreq ]_vars

\* C5 amended: each time the periodic check fires, nextDataPoint becomes the
\* cycle time plus logFreq, which is its previous value plus logFreq only
\* when the cycle time equals the due time.
C5_AdvanceFromNow ==
  [][ CheckFires
        => /\ nextDataPoint' = now + logFreq
           /\ (nextDataPoint' = nextDataPoint + logFreq) <=> (now = nextDataPoint)
    ]_vars

\* the check fired in a cycle that a calibration session had blocked
C5_Witness ==
  /\ pc = "loop" /\ button = LEFT
  /\ logData /\ Len(logOut) = 1 /\ nextDataPoint = now + logFreq

\* C6: SELECT on the main screen flips logData; turning on writes one record
\* at once and sets nextDataPoint to the cycle time plus logFreq; turning
\* off writes nothing and leaves nextDataPoint alone.
C6_SelectToggle ==
  [][ (pc = "loop" /\ button' = SELECT)
        => /\ logData' = ~logData
           /\ logData' => /\ logOut' = <<LogData(ORPvalue, now')>>
                          /\ nextDataPoint' = now' + logFreq
           /\ ~logData' => /\ logOut' = <<>>
                           /\ nextDataPoint' = nextDataPoint
    ]_vars

C6_Witness ==
  /\ pc = "tail" /\ button = SELECT /\ logData
  /\ Len(logOut) = 1 /\ nextDataPoint = now + logFreq

\* C7: in the log-frequency setter UP adds 5 and DOWN subtracts 5 with a
\* floor of 5, nothing else changes logFreq, and logFreq >= 5 always.
C7_LogFreqFloor ==
  /\ [](logFreq >= 5)
  /\ [][ /\ pc = "freq"
              => logFreq' = (IF button' = UP THEN logFreq + 5
                             ELSE IF button' = DOWN
                               THEN (IF logFreq - 5 < 5 THEN 5 ELSE logFreq - 5)
                             ELSE logFreq)
         /\ pc # "freq" => logFreq' = logFreq
       ]_vars

C7_Witness == pc = "freq" /\ button = DOWN /\ logFreq = 5

\* C8: one read request is sent in every main-loop cycle and in every
\* iteration of the calibration loop, whatever the averaging counter.
C8_OneRequestEveryPass ==
  [][ (pc = "tail" \/ pc = "cal") => Reads(orpOut') = 1 ]_vars

\* C9 as stated: the averaging counter stays within 1..3.
C9_CounterUpTo3 == counter \in 1..3

\* C9 amended: the averaging counter stays within 1..4.
C9_CounterUpTo4 == counter \in 1..4

C9_Witness == counter = 4 /\ pc \in {"loop", "cal"}

\* avg is within 0.01 of num/100
Near(avg, num) == Abs(avg.n * 100 - num * avg.d) <= avg.d

\* the current group started from avg = 0 and has folded the first k of
\* the readings 10, 20, 30
Folded(k) ==
  /\ group.start = Zero
  /\ group.rs = SubSeq(<<Num(10), Num(20), Num(30)>>, 1, k)

\* C10 as stated: from avg = 0 and counter = 1 the readings 10, 20, 30 give
\* avg = 5 (counter 2), 12.5 (counter 3) and about 14.17, which is published
\* when the counter resets to 1.
C10_FoldsAsStated ==
  /\ Folded(1) => (avgORP = Rat(5, 1) /\ counter = 2)
  /\ Folded(2) => (avgORP = Rat(25, 2) /\ counter = 3)
  /\ Folded(3) => /\ Near(avgORP, 1417)
                  /\ counter = 1 => ORPvalue = avgORP

\* C10 amended: from avg = 0 and counter = 1 the readings 10, 20, 30 give
\* avg = 10 (counter 2), 15 (counter 3) and 15 (counter 4), and 15 is
\* published when the counter then resets to 1.
C10_FoldsAsCoded ==
  /\ Folded(1) => (avgORP = Num(10) /\ counter = 2)
  /\ Folded(2) => (avgORP = Num(15) /\ counter = 3)
  /\ Folded(3) => /\ avgORP = Num(15)
                  /\ counter \in {4, 1}
                  /\ counter = 1 => ORPvalue = Num(15)

C10_Witness == Folded(3) /\ counter = 1 /\ ORPvalue = Num(15)

\* C11: a modal sub-loop is left in exactly the iterations that sample its
\* exit button, LEFT for the calibration session and RIGHT for the
\* log-frequency setter, and the main loop then goes on after its switch.
C11_ExitOnlyOnExitButton ==
  [][ /\ pc = "cal"
           => /\ (pc' # "cal") <=> (button' = LEFT)
              /\ pc' \in {"cal", "tail"}
      /\ pc = "freq"
           => /\ (pc' # "freq") <=> (button' = RIGHT)
              /\ pc' \in {"freq", "tail"}
    ]_vars

C11_Witness == pc = "tail" /\ button = RIGHT /\ logFreq = 10

\* C12: at the end of every main-loop cycle both edge flags are false.
C12_FlagsClearedEachCycle ==
  pc = "loop" => (~buttonJustPressed /\ ~buttonJustReleased)

\* a pass through the averaging block that read no line: sensor_data and
\* string_received are as they were
NoLinePass ==
  /\ pc = "tail" \/ pc = "cal"
  /\ sensor_data' = sensor_data
  /\ string_received' = string_received

\* C13: a cycle in which no response line is available leaves
\* avgORP as it was.
C13_NoLineKeepsAverage == [][ NoLinePass => avgORP' = avgORP ]_vars

\* C14: while a modal sub-loop runs no record is written and logData,
\* logPin and nextDataPoint keep the values they had on entry.
C14_LoggingFrozenInSubLoops ==
  /\ []((pc = "cal" \/ pc = "freq") => logOut = <<>>)
  /\ [][ (pc = "cal" \/ pc = "freq")
           => /\ logOut' = logOut
              /\ logData' = logData
              /\ logPin' = logPin
              /\ nextDataPoint' = nextDataPoint
       ]_vars

C14_Witness == pc = "freq" /\ logData /\ button = UP /\ logFreq = 10

\* C15: a negative published value is rendered one column to the left of
\* the column of the positive value of the same magnitude.
C15_NegativeOneColumnLeft ==
  RLess(ORPvalue, Zero) => orpPos = OrpColumn(RNeg(ORPvalue)) - 1

\* the displayed value has three integer digits
ThreeDigits(v) ==
  RGeq(RAbs(v), Num(100)) /\ RLess(RAbs(v), Num(1000))

\* C16 as stated: a displayed value with three integer digits is rendered
\* starting at column 11, with "mV" at column 14.
C16_ThreeDigitsAt11 ==
  ThreeDigits(ORPvalue) => (orpPos = 11 /\ MvColumn = 14)

\* C16 amended: a displayed value with three integer digits is rendered
\* starting at column 10 when positive and at column 10 or 9 when negative,
\* with "mV" at column 14; column 11 is the start of a positive value with two
\* integer digits.
C16_ThreeDigitsAt10 ==
  /\ MvColumn = 14
  /\ (ThreeDigits(ORPvalue) /\ RGeq(ORPvalue, Zero)) => orpPos = 10
  /\ (ThreeDigits(ORPvalue) /\ RLess(ORPvalue, Zero)) => orpPos \in {9, 10}
  /\ (RGeq(ORPvalue, Num(10)) /\ RLess(ORPvalue, Num(100))) => orpPos = 11

\* 123.45 on the display
C16_Witness == ORPvalue = Rat(2469, 20) /\ orpPos = 10

\* C17: no main-loop cycle writes more than one log record; the cycle in
\* which SELECT switches logging on writes the immediate record and its
\* periodic check writes nothing.
C17_OneRecordPerCycle ==
  /\ [](Len(logOut) <= 1)
  /\ [][ (pc = "tail" /\ button = SELECT /\ logData)
           => (Len(logOut) = 1 /\ logOut' = logOut /\ nextDataPoint' = nextDataPoint)
       ]_vars

C17_Witness ==
  /\ pc = "loop" /\ button = SELECT /\ logData
  /\ Len(logOut) = 1 /\ logOut[1].t = now
  /\ nextDataPoint = now + logFreq

\* C18: every main-loop cycle that samples SELECT negates logData, whatever
\* the previous sample was; a second consecutive SELECT cycle undoes the first,
\* the one record being written by the cycle that switched logging on.
C18_LevelTriggeredToggle ==
  [][ /\ (pc = "loop" /\ button' = SELECT)
           => /\ logData' = ~logData
              /\ Len(logOut') = (IF logData THEN 0 ELSE 1)
      /\ (pc = "loop" /\ button = SELECT /\ button' = SELECT)
           => /\ logData' = ~logData
              /\ logData => logOut' = <<>>
    ]_vars

\* SELECT sampled in two consecutive cycles at one clock reading: on, then off
C18_Witness ==
  /\ pc = "tail" /\ button = SELECT /\ buttonHeld
  /\ ~logData /\ logOut = <<>> /\ logPin = "LOW"
  /\ nextDataPoint = now + logFreq

\* C19: the main-loop cycle after a sub-loop's exit decides on its own sample:
\* LEFT still sampled after a calibration exit enters the log-frequency
\* setter, RIGHT still sampled after a setter exit enters calibration and
\* sends "C" again.
C19_ExitButtonEntersOther ==
  [][ /\ (pc = "loop" /\ button = LEFT /\ button' = LEFT) => pc' = "freq"
      /\ (pc = "loop" /\ button = RIGHT /\ button' = RIGHT)
           => (pc' = "cal" /\ orpOut' = <<"C">>)
    ]_vars

C19_Witness ==
  pc = "cal" /\ button = RIGHT /\ buttonHeld /\ orpOut = <<"C">> /\ logFreq = 10

\* a + r1 + r2 + 2*r3 over 6
SixthOf(a, rs) ==
  RDivInt(RAdd(RAdd(RAdd(a, rs[1]), rs[2]), RAdd(rs[3], rs[3])), 6)

\* C20: the accumulator is carried into the next group: three readings r1,
\* r2, r3 folded from the accumulated value a give (a + r1 + r2 + 2*r3)/6,
\* which is the value then published; with a = r and the three readings all r
\* the result is r again only for r = 0.
C20_CarriedAccumulator ==
  Len(group.rs) = 3
    => /\ avgORP = SixthOf(group.start, group.rs)
       /\ counter = 1 => ORPvalue = SixthOf(group.start, group.rs)
       /\ group.rs = <<group.start, group.start, group.start>>
            => (avgORP = group.start <=> group.start = Zero)

\* 10 was accumulated, three more readings of 10 publish 25/3
C20_Witness ==
  /\ group.start = Num(10)
  /\ group.rs = <<Num(10), Num(10), Num(10)>>
  /\ counter = 1
  /\ ORPvalue = Rat(25, 3)

\* C21: in every reachable state the logger's power pin is HIGH exactly when
\* logData is true.
C21_PinTracksLogData ==
  /\ logPin \in {"HIGH", "LOW"}
  /\ (logPin = "HIGH") <=> logData

\* logging is on, its first record written, from inside a cycle that sampled
\* SELECT
C21_Witness ==
  /\ pc = "tail" /\ button = SELECT
  /\ logData /\ logPin = "HIGH" /\ Len(logOut) = 1

\* C22: buttonJustPressed and buttonJustReleased are never true together, in
\* the main loop and in both sub-loops.
C22_FlagsExclusive == ~(buttonJustPressed /\ buttonJustReleased)

\* a release sampled inside the calibration loop after the press that
\* entered it
C22_Witness ==
  /\ pc = "cal" /\ button = BUTTON_NONE
  /\ buttonJustReleased /\ ~buttonJustPressed

====
